---- MODULE Spec2Model ----
(***************************************************************************)
(* Model of the liked-tweets digest pipeline of tweet-digest-notifier:     *)
(*   src/tweet_digest.py        TwitterDigest (API extractor, strict       *)
(*                              timeframe filter, dedup, render, send)     *)
(*   src/scrape_liked_tweets.py TwitterScraper (DOM extractor, relative    *)
(*                              hours filter)                              *)
(* Datetimes are records of their calendar fields plus a UTC offset in     *)
(* minutes; the configured timezone is modelled with one fixed offset      *)
(* (no daylight-saving transition inside a run).                           *)
(***************************************************************************)
EXTENDS Integers, Sequences, FiniteSets, TLC

VARIABLES
    mode,             \* which entry point runs: "filter", "digest", "fetch", "scrape", "parse"
    pc,               \* position inside the running entry point
    clock,            \* the wall clock, read by every datetime.now(self.timezone)
    ticks,            \* how often the wall clock has advanced during the run
    timeframe,        \* argument of run_digest / filter_tweets_by_timeframe
    served,           \* responses the listing endpoint has returned so far
    cursors,          \* the pagination_token each request carried
    pagination_token, \* fetch_liked_tweets local
    fetch_window,     \* run_digest locals start_time, end_time
    all_tweets,       \* fetch_liked_tweets / run_digest local
    boundary,         \* filter_tweets_by_timeframe locals start_time, end_time
    filtered_tweets,  \* run_digest local
    unique_tweets,    \* run_digest local
    email,            \* (subject, html_content) of generate_html_email
    sent,             \* messages handed to the SMTP server
    error,            \* exception that ended the entry point, "" when none
    exit_code,        \* process exit status set by sys.exit, -1 while running
    tweet_elements,   \* DOM articles of the likes page (scraper input)
    tweets,           \* extract_tweet_data result
    hours,            \* filter_recent_tweets argument
    cutoff_time,      \* filter_recent_tweets local
    recent_tweets,    \* filter_recent_tweets result
    time_text,        \* parse_timestamp argument
    parsed            \* parse_timestamp result: the value returned or the exception

vars == <<mode, pc, clock, ticks, timeframe, served, cursors, pagination_token,
          fetch_window, all_tweets, boundary, filtered_tweets, unique_tweets,
          email, sent, error, exit_code, tweet_elements, tweets, hours,
          cutoff_time, recent_tweets, time_text, parsed>>

----------------------------------------------------------------------------
(* Bounds of the model *)

\* longest list of posts handed to a filter in the stand-alone filter runs
MaxTweets == 2
\* most DOM articles on the likes page
MaxElements == 2
\* most pages the listing endpoint serves in one run
MaxPages == 2
\* most raw records the listing endpoint serves in one run, over all pages
MaxRecords == 3
\* longest text handed to parse_timestamp, in characters
MaxTextLen == 3
\* how often the wall clock advances during one run
MaxTicks == 1
\* seconds the wall clock advances by at a time
TickSeconds == 1

----------------------------------------------------------------------------
(* datetime / timedelta / calendar, as the standard library computes them *)

\* utcoffset, in minutes, of the configured timezone (TIMEZONE default
\* America/New_York, standard time)
TzOffsetMinutes == -300

\* cutoff hour of every boundary: replace(hour=21, minute=0, ...)
CutoffHour == 21

DT(k, y, mo, d, h, mi, s, us, off) ==
    [kind |-> k, year |-> y, month |-> mo, day |-> d, hour |-> h,
     minute |-> mi, second |-> s, microsecond |-> us, off |-> off]

\* Python None in a timestamp field
NoneDT == DT("none", 0, 0, 0, 0, 0, 0, 0, 0)

Aware(y, mo, d, h, mi, s, us, off) == DT("aware", y, mo, d, h, mi, s, us, off)

Naive(y, mo, d, h, mi, s, us) == DT("naive", y, mo, d, h, mi, s, us, 0)

\* calendar.isleap
isleap(y) == (y % 4 = 0) /\ ((y % 100 # 0) \/ (y % 400 = 0))

\* calendar.mdays
mdays == <<31, 28, 31, 30, 31, 30, 31, 31, 30, 31, 30, 31>>

\* calendar.monthrange(year, month)[1]
MonthDays(y, mo) == mdays[mo] + (IF mo = 2 /\ isleap(y) THEN 1 ELSE 0)

\* datetime._days_before_year
DaysBeforeYear(y) ==
    (y - 1) * 365 + ((y - 1) \div 4) - ((y - 1) \div 100) + ((y - 1) \div 400)

RECURSIVE DaysBeforeMonth(_, _)
\* datetime._days_before_month
DaysBeforeMonth(y, mo) ==
    IF mo = 1 THEN 0 ELSE DaysBeforeMonth(y, mo - 1) + MonthDays(y, mo - 1)

\* date.toordinal
ToOrdinal(dt) == DaysBeforeYear(dt.year) + DaysBeforeMonth(dt.year, dt.month) + dt.day

\* the year of proleptic ordinal n (datetime._ord2ymd, year part)
OrdYear(n) ==
    LET n0   == n - 1
        n400 == n0 \div 146097
        r400 == n0 % 146097
        n100 == r400 \div 36524
        r100 == r400 % 36524
        n4   == r100 \div 1461
        r4   == r100 % 1461
        n1   == r4 \div 365
        y    == n400 * 400 + 1 + n100 * 100 + n4 * 4 + n1
    IN IF n1 = 4 \/ n100 = 4 THEN y - 1 ELSE y

\* the month of ordinal n within year y (datetime._ord2ymd, month part)
OrdMonth(n, y) ==
    CHOOSE mo \in 1..12 :
        /\ DaysBeforeYear(y) + DaysBeforeMonth(y, mo) < n
        /\ n <= DaysBeforeYear(y) + DaysBeforeMonth(y, mo) + MonthDays(y, mo)

\* date.fromordinal applied to a datetime's date part
WithOrdinal(dt, n) ==
    LET y  == OrdYear(n)
        mo == OrdMonth(n, y)
    IN [dt EXCEPT !.year = y, !.month = mo,
                  !.day = n - DaysBeforeYear(y) - DaysBeforeMonth(y, mo)]

\* date.weekday(): Monday = 0 ... Sunday = 6
weekday(dt) == (ToOrdinal(dt) + 6) % 7

SecondOfDay(dt) == dt.hour * 3600 + dt.minute * 60 + dt.second

\* datetime - timedelta(days=d, seconds=s): field arithmetic, tzinfo kept
MinusDelta(dt, d, s) ==
    LET sec  == SecondOfDay(dt) - s
        n    == ToOrdinal(dt) - d + (sec \div 86400)
        sod  == sec % 86400
        date == WithOrdinal(dt, n)
    IN [date EXCEPT !.hour = sod \div 3600,
                    !.minute = (sod % 3600) \div 60,
                    !.second = sod % 60]

\* datetime - timedelta(days=d)
MinusDays(dt, d) == MinusDelta(dt, d, 0)

\* datetime - timedelta(hours=h)
MinusHours(dt, h) == MinusDelta(dt, 0, h * 3600)

\* datetime - timedelta(minutes=m)
MinusMinutes(dt, m) == MinusDelta(dt, 0, m * 60)

\* datetime.replace(hour=21, minute=0, second=0, microsecond=0)
AtCutoff(dt) ==
    [dt EXCEPT !.hour = CutoffHour, !.minute = 0, !.second = 0, !.microsecond = 0]

\* datetime.replace(day=d)
ReplaceDay(dt, d) == [dt EXCEPT !.day = d]

\* the instant of an aware datetime as <<UTC day, UTC second of day, microsecond>>
UtcKey(dt) ==
    LET sec == SecondOfDay(dt) - dt.off * 60
    IN <<ToOrdinal(dt) + (sec \div 86400), sec % 86400, dt.microsecond>>

KeyLE(a, b) ==
    \/ a[1] < b[1]
    \/ a[1] = b[1] /\ a[2] < b[2]
    \/ a[1] = b[1] /\ a[2] = b[2] /\ a[3] <= b[3]

\* a <= b raises TypeError unless both are datetimes of the same awareness
Comparable(a, b) == a.kind = b.kind /\ a.kind # "none"

\* datetime.__le__ on comparable datetimes
DtLE(a, b) ==
    IF a.kind = "aware" THEN KeyLE(UtcKey(a), UtcKey(b))
    ELSE KeyLE(<<ToOrdinal(a), SecondOfDay(a), a.microsecond>>,
               <<ToOrdinal(b), SecondOfDay(b), b.microsecond>>)

\* pytz tzinfo.localize(naive)
localize(dt) == [dt EXCEPT !.kind = "aware", !.off = TzOffsetMinutes]

----------------------------------------------------------------------------
(* Records *)

\* the author mapping of a canonical post
Author(u, n) == [username |-> u, name |-> n]

\* the dict appended to all_tweets: id, text, created_at, author, url, media
Post(id, text, created, author, media) ==
    [id |-> id, text |-> text, created_at |-> created, author |-> author,
     url |-> <<"https://twitter.com", author.username, "status", id>>,
     media |-> media]

----------------------------------------------------------------------------
(* TwitterDigest.filter_tweets_by_timeframe *)

Timeframes == {"daily", "weekly", "monthly"}

Raise(exc) == [raised |-> exc, value |-> << >>]

Return(v) == [raised |-> "", value |-> v]

\* days_since_sunday = now.weekday() + 1
days_since_sunday(now) == weekday(now) + 1

\* a daily boundary that ends at the last cutoff already passed
DailyBoundary_Completed(now) ==
    [start_time |-> AtCutoff(MinusDays(now, 2)),
     end_time   |-> AtCutoff(MinusDays(now, 1))]

\* timeframe == "daily"
DailyBoundary(now) ==
    [start_time |-> AtCutoff(MinusDays(now, 1)),
     end_time   |-> AtCutoff(now)]

\* timeframe == "weekly"
WeeklyBoundary(now) ==
    [start_time |-> AtCutoff(MinusDays(now, days_since_sunday(now) + 6)),
     end_time   |-> AtCutoff(MinusDays(now, days_since_sunday(now) - 1))]

\* a monthly boundary that is the 30 days up to today
MonthlyBoundary_Rolling(now) ==
    [start_time |-> AtCutoff(MinusDays(now, 30)),
     end_time   |-> AtCutoff(now)]

\* timeframe == "monthly"
MonthlyBoundary(now) ==
    [start_time |-> AtCutoff(ReplaceDay(now, 1)),
     end_time   |-> AtCutoff(ReplaceDay(now, MonthDays(now.year, now.month)))]

\* the boundary no branch has assigned (timeframe not recognised)
NoBoundary == [start_time |-> NoneDT, end_time |-> NoneDT]

\* the if / elif / elif chain over timeframe
BoundaryOf(tf, now) ==
    CASE tf = "daily"   -> DailyBoundary(now)
      [] tf = "weekly"  -> WeeklyBoundary(now)
      [] tf = "monthly" -> MonthlyBoundary(now)
      [] OTHER          -> NoBoundary

\* start_time <= tweet["created_at"] <= end_time, for a comparable created_at
Between(s, c, e) == DtLE(s, c) /\ DtLE(c, e)

RECURSIVE Comprehension(_, _, _)
\* [tweet for tweet in tweets if start_time <= tweet["created_at"] <= end_time]
Comprehension(ts, s, e) ==
    IF ts = << >> THEN Return(<< >>)
    ELSE IF ~Comparable(s, Head(ts).created_at) THEN Raise("TypeError")
    ELSE LET rest == Comprehension(Tail(ts), s, e)
         IN IF rest.raised # "" THEN rest
            ELSE IF Between(s, Head(ts).created_at, e)
                 THEN Return(<<Head(ts)>> \o rest.value)
                 ELSE rest

\* raise ValueError("Timeframe must be 'daily', 'weekly', or 'monthly'")
InvalidTimeframe == "ValueError: Timeframe must be 'daily', 'weekly', or 'monthly'"

\* a filter whose final else branch falls through to the monthly boundary
filter_tweets_by_timeframe_NoRaise(ts, tf, now) ==
    LET b == IF tf \in Timeframes THEN BoundaryOf(tf, now) ELSE MonthlyBoundary(now)
    IN Comprehension(ts, b.start_time, b.end_time)

\* the whole method: what it returns or raises
filter_tweets_by_timeframe(ts, tf, now) ==
    IF tf \notin Timeframes THEN Raise(InvalidTimeframe)
    ELSE Comprehension(ts, BoundaryOf(tf, now).start_time, BoundaryOf(tf, now).end_time)

----------------------------------------------------------------------------
(* Inputs of the stand-alone filter runs *)

Times == { <<0, 0, 0, 0>>, <<10, 0, 0, 0>>, <<21, 0, 0, 0>>, <<23, 59, 59, 999999>> }

\* Sunday 2024-03-10 .. Sunday 2024-03-17: every weekday
WeekDates == { <<2024, 3, d>> : d \in 10..17 }

\* month ends and starts: 28, 29, 30 and 31 day months, year turn,
\* century years
MonthDates == { <<2023, 2, 28>>, <<2024, 2, 29>>, <<2024, 3, 1>>, <<2024, 4, 30>>,
                <<2023, 12, 31>>, <<2024, 1, 1>>, <<2100, 2, 14>>, <<2000, 2, 1>>,
                <<2024, 2, 3>>, <<2023, 11, 5>> }

NowAt(d, t) == Aware(d[1], d[2], d[3], t[1], t[2], t[3], t[4], TzOffsetMinutes)

FilterNows == { NowAt(d, t) : d \in WeekDates, t \in Times }
              \cup { NowAt(d, <<10, 0, 0, 0>>) : d \in MonthDates }

\* created_at values around the boundaries of March 2024, in several offsets
FilterStamps ==
    { Aware(2024, 3, 15, 2, 0, 0, 0, 0),          \* = 03-14 21:00 -05:00
      Aware(2024, 3, 15, 1, 59, 59, 999999, 0),
      Aware(2024, 3, 16, 2, 0, 0, 0, 0),          \* = 03-15 21:00 -05:00
      Aware(2024, 3, 15, 21, 0, 0, 1, -300),
      Aware(2024, 3, 15, 12, 0, 0, 0, -300),
      Aware(2024, 3, 12, 2, 0, 0, 0, 0),          \* = 03-11 21:00 -05:00
      Aware(2024, 3, 1, 21, 0, 0, 0, -300),
      Naive(2024, 3, 15, 12, 0, 0, 0),
      NoneDT }

FilterPosts == { Post(1, <<"hello">>, c, Author("alice", "Alice"), << >>) : c \in FilterStamps }

SeqsUpTo(S, n) == UNION { [1..k -> S] : k \in 0..n }

AllTimeframes == Timeframes \cup {"hourly"}

NoEmail == [subject |-> << >>, html_content |-> << >>]

\* parse_timestamp has not been called
NoResult == [raised |-> "", value |-> NoneDT]

----------------------------------------------------------------------------
(* Stand-alone call of filter_tweets_by_timeframe(tweets, timeframe) *)

FilterInit ==
    /\ mode = "filter"
    /\ pc = "filter"
    /\ clock \in FilterNows
    /\ ticks = 0
    /\ timeframe \in AllTimeframes
    /\ all_tweets \in SeqsUpTo(FilterPosts, MaxTweets)
    /\ served = << >>
    /\ cursors = << >>
    /\ pagination_token = 0
    /\ fetch_window = NoBoundary
    /\ boundary = NoBoundary
    /\ filtered_tweets = << >>
    /\ unique_tweets = << >>
    /\ email = NoEmail
    /\ sent = << >>
    /\ error = ""
    /\ exit_code = -1
    /\ tweet_elements = << >>
    /\ tweets = << >>
    /\ hours = 0
    /\ cutoff_time = NoneDT
    /\ recent_tweets = << >>
    /\ time_text = << >>
    /\ parsed = NoResult

CallFilter ==
    /\ mode = "filter"
    /\ pc = "filter"
    /\ LET r == filter_tweets_by_timeframe(all_tweets, timeframe, clock)
       IN /\ boundary' = BoundaryOf(timeframe, clock)
          /\ filtered_tweets' = r.value
          /\ error' = r.raised
          /\ pc' = IF r.raised = "" THEN "returned" ELSE "raised"
    /\ UNCHANGED <<mode, clock, ticks, timeframe, served, cursors, pagination_token,
                   fetch_window, all_tweets, unique_tweets, email, sent,
                   exit_code, tweet_elements, tweets, hours, cutoff_time, recent_tweets,
                   time_text, parsed>>

FilterNext == CallFilter

FilterSpec == FilterInit /\ [][FilterNext]_vars

----------------------------------------------------------------------------
(* TwitterDigest.fetch_liked_tweets: one page of the listing *)

\* a JSON field that is present with value v / absent
Some(v) == <<v>>

Absent == << >>

\* the text of a created_at field: date and time digits plus a zone suffix
IsoText(valid, y, mo, d, h, mi, s, us, suffix) ==
    [valid |-> valid, year |-> y, month |-> mo, day |-> d, hour |-> h,
     minute |-> mi, second |-> s, microsecond |-> us, suffix |-> suffix]

\* str.replace("Z", "+00:00") on the zone suffix
ReplaceZ(suffix) == IF suffix = "Z" THEN "+00:00" ELSE suffix

\* datetime.fromisoformat on a valid text
fromisoformat(t) ==
    LET z == ReplaceZ(t.suffix)
    IN CASE z = ""       -> Naive(t.year, t.month, t.day, t.hour, t.minute, t.second, t.microsecond)
         [] z = "+00:00" -> Aware(t.year, t.month, t.day, t.hour, t.minute, t.second, t.microsecond, 0)
         [] z = "-05:00" -> Aware(t.year, t.month, t.day, t.hour, t.minute, t.second, t.microsecond, -300)

\* one object of data["data"]
RawTweet(id, text, created, author_id, media_keys) ==
    [id |-> id, text |-> text, created_at |-> created, author_id |-> author_id,
     media_keys |-> media_keys]

RECURSIVE Lookup(_, _, _)
\* {x[key]: x for x in xs}.get(k): the last object of xs with that key
Lookup(xs, key, k) ==
    IF xs = << >> THEN << >>
    ELSE IF xs[Len(xs)][key] = k THEN <<xs[Len(xs)]>>
    ELSE Lookup(SubSeq(xs, 1, Len(xs) - 1), key, k)

\* author.get("username", "unknown"), author.get("name", "Unknown User")
AuthorOf(users, author_id) ==
    LET u == Lookup(users, "id", author_id)
    IN IF u = << >> THEN Author("unknown", "Unknown User")
       ELSE Author(u[1].username, u[1].name)

RECURSIVE MediaOf(_, _)
\* for media_key in tweet["attachments"]["media_keys"]: if media_key in media
MediaOf(keys, media) ==
    IF keys = << >> THEN << >>
    ELSE Lookup(media, "media_key", Head(keys)) \o MediaOf(Tail(keys), media)

\* the body of "for tweet in tweets", for one tweet
ProcessTweet(tweet, users, media, window) ==
    IF tweet.created_at = Absent THEN Raise("KeyError: 'created_at'")
    ELSE IF ~tweet.created_at[1].valid THEN Raise("ValueError: Invalid isoformat string")
    ELSE LET tweet_created == fromisoformat(tweet.created_at[1])
         IN IF ~Comparable(window.start_time, tweet_created) THEN Raise("TypeError")
            ELSE IF ~Between(window.start_time, tweet_created, window.end_time)
                 THEN Return(<< >>)
            ELSE IF tweet.author_id = Absent THEN Raise("KeyError: 'author_id'")
            ELSE IF tweet.id = Absent THEN Raise("KeyError: 'id'")
            ELSE IF tweet.text = Absent THEN Raise("KeyError: 'text'")
            ELSE Return(<<Post(tweet.id[1], tweet.text[1], tweet_created,
                               AuthorOf(users, tweet.author_id[1]),
                               IF tweet.media_keys = Absent THEN << >>
                               ELSE MediaOf(tweet.media_keys[1], media))>>)

RECURSIVE ProcessTweets(_, _, _, _)
\* the for loop over one page: the posts appended, and the exception that
\* ended the loop if one did
ProcessTweets(ts, users, media, window) ==
    IF ts = << >> THEN Return(<< >>)
    ELSE LET one == ProcessTweet(Head(ts), users, media, window)
         IN IF one.raised # "" THEN one
            ELSE LET rest == ProcessTweets(Tail(ts), users, media, window)
                 IN [raised |-> rest.raised, value |-> one.value \o rest.value]

\* a response of the listing endpoint; next_token 0 is an absent or empty token
Response(status, has_data, data, users, media, next_token) ==
    [status |-> status, has_data |-> has_data, data |-> data, users |-> users,
     media |-> media, next_token |-> next_token]

----------------------------------------------------------------------------
(* Inputs of the digest runs *)

\* Friday 2024-03-15, one second before midnight: a tick of the clock moves
\* the later readings to the next calendar day
DigestNows == { Aware(2024, 3, 15, 23, 59, 59, 0, TzOffsetMinutes) }

\* the same Friday at 10:00, before the cut-off hour and before Raw1 was liked
MorningNow == Aware(2024, 3, 15, 10, 0, 0, 0, TzOffsetMinutes)

\* the runs: every timeframe late in the evening, and a daily run in the morning
DigestRuns ==
    { [now |-> n, timeframe |-> tf] : n \in DigestNows, tf \in AllTimeframes }
    \cup { [now |-> MorningNow, timeframe |-> "daily"] }

IncludedUsers == << [id |-> 7, username |-> "alice", name |-> "Alice"] >>

IncludedMedia == << [media_key |-> "m1", type |-> "photo", url |-> "https://pbs/m1.jpg",
                      preview_image_url |-> ""] >>

\* liked Friday 2024-03-15 12:00 local: inside the daily and monthly boundary
Raw1 == RawTweet(Some(1), Some(<<"hello">>),
                 Some(IsoText(TRUE, 2024, 3, 15, 17, 0, 0, 0, "Z")), Some(7), Some(<<"m1">>))

\* the same post captured again on a later page, with trailing whitespace
Raw1b == RawTweet(Some(1), Some(<<"hello", " ">>),
                  Some(IsoText(TRUE, 2024, 3, 15, 17, 0, 0, 0, "Z")), Some(7), Absent)

\* liked Sunday 2024-03-10 10:00 local: inside the weekly and monthly boundary
Raw2 == RawTweet(Some(2), Some(<<"world">>),
                 Some(IsoText(TRUE, 2024, 3, 10, 10, 0, 0, 0, "-05:00")), Some(8), Absent)

\* a record without created_at
Raw3 == RawTweet(Some(3), Some(<<"broken">>), Absent, Some(7), Absent)

RawTweets == { Raw1, Raw1b, Raw2, Raw3 }

\* the responses the endpoint can give as page k, with at most n records
Responses(k, n) ==
    { Response("error", FALSE, << >>, << >>, << >>, 0),
      Response("ok", FALSE, << >>, << >>, << >>, 0) }
    \cup { Response("ok", TRUE, d, IncludedUsers, IncludedMedia, t) :
             d \in SeqsUpTo(RawTweets, n), t \in {0, k} }

RECURSIVE RecordsServed(_)
RecordsServed(rs) ==
    IF rs = << >> THEN 0 ELSE Len(Head(rs).data) + RecordsServed(Tail(rs))

----------------------------------------------------------------------------
(* TwitterDigest.run_digest: deduplication *)

RECURSIVE RemoveDuplicates(_, _, _)
\* for tweet in filtered_tweets: if tweet["id"] not in seen_ids: ...
RemoveDuplicates(ts, seen_ids, unique) ==
    IF ts = << >> THEN unique
    ELSE IF Head(ts).id \notin seen_ids
         THEN RemoveDuplicates(Tail(ts), seen_ids \cup {Head(ts).id}, Append(unique, Head(ts)))
         ELSE RemoveDuplicates(Tail(ts), seen_ids, unique)

RECURSIVE KeepLast(_)
\* a deduplication in which the last occurrence of an id wins
KeepLast(ts) ==
    IF ts = << >> THEN << >>
    ELSE IF \E j \in 2..Len(ts) : ts[j].id = Head(ts).id
         THEN KeepLast(Tail(ts))
         ELSE <<Head(ts)>> \o KeepLast(Tail(ts))

Deduplicate_KeepLast(ts) == KeepLast(ts)

\* a deduplication that drops one repeated post per pass: the last post whose
\* id occurred before
Deduplicate_OnePerPass(ts) ==
    LET repeated == { j \in DOMAIN ts : \E i \in 1..(j - 1) : ts[i].id = ts[j].id }
    IN IF repeated = {} THEN ts
       ELSE LET last == CHOOSE j \in repeated : \A k \in repeated : k <= j
            IN SubSeq(ts, 1, last - 1) \o SubSeq(ts, last + 1, Len(ts))

\* seen_ids = set(); unique_tweets = []; the loop
Deduplicate(ts) == RemoveDuplicates(ts, {}, << >>)

----------------------------------------------------------------------------
(* TwitterDigest.generate_html_email *)

\* strftime('%B %d, %Y at %I:%M %p')
LikedAt(dt) ==
    <<dt.month, dt.day, dt.year,
      IF dt.hour % 12 = 0 THEN 12 ELSE dt.hour % 12, dt.minute,
      IF dt.hour < 12 THEN "AM" ELSE "PM">>

\* subject of the message
SubjectOf(tf, now) ==
    CASE tf = "daily"  -> <<"Your Liked Tweets Digest", now.month, now.day, now.year>>
      [] tf = "weekly" ->
           LET week_start == MinusDays(now, weekday(now) + 1)
           IN <<"Your Weekly Liked Tweets Summary  Week of", week_start.month, week_start.day>>
      [] OTHER         -> <<"Your Liked Tweets Recap", now.month, now.year>>

\* title of the body
TitleOf(tf) ==
    CASE tf = "daily"  -> "Daily Liked Tweets Digest"
      [] tf = "weekly" -> "Weekly Liked Tweets Summary"
      [] OTHER         -> "Monthly Liked Tweets Recap"

RECURSIVE MediaHtml(_)
\* the <img> tags of one post
MediaHtml(ms) ==
    IF ms = << >> THEN << >>
    ELSE LET m == Head(ms)
         IN (IF m.type = "photo" /\ m.url # "" THEN <<[img |-> m.url, alt |-> "Tweet media"]>>
             ELSE IF m.preview_image_url # ""
                  THEN <<[img |-> m.preview_image_url, alt |-> "Media preview"]>>
                  ELSE << >>)
            \o MediaHtml(Tail(ms))

\* the <div> block of one post
TweetHtml(tweet) ==
    [quote      |-> tweet.text,
     profile    |-> <<"https://twitter.com", tweet.author.username>>,
     name       |-> tweet.author.name,
     media_html |-> MediaHtml(tweet.media),
     permalink  |-> tweet.url,
     liked      |-> LikedAt(tweet.created_at)]

RECURSIVE TweetsHtml(_)
\* tweet_html, accumulated over "for tweet in tweets"
TweetsHtml(ts) ==
    IF ts = << >> THEN << >> ELSE <<TweetHtml(Head(ts))>> \o TweetsHtml(Tail(ts))

RECURSIVE Reversed(_)
Reversed(xs) == IF xs = << >> THEN << >> ELSE Reversed(Tail(xs)) \o <<Head(xs)>>

\* a renderer that puts the last post of the list first
generate_html_email_Reversed(ts, tf, now) ==
    [subject      |-> SubjectOf(tf, now),
     html_content |->
        IF ts = << >>
        THEN [title |-> TitleOf(tf), no_tweets |-> TRUE, found |-> 0, blocks |-> << >>]
        ELSE [title |-> TitleOf(tf), no_tweets |-> FALSE, found |-> Len(ts),
              blocks |-> TweetsHtml(Reversed(ts))]]

\* the method: (subject, html_content)
generate_html_email(ts, tf, now) ==
    [subject      |-> SubjectOf(tf, now),
     html_content |->
        IF ts = << >>
        THEN [title |-> TitleOf(tf), no_tweets |-> TRUE, found |-> 0, blocks |-> << >>]
        ELSE [title |-> TitleOf(tf), no_tweets |-> FALSE, found |-> Len(ts),
              blocks |-> TweetsHtml(ts)]]

----------------------------------------------------------------------------
(* TwitterDigest.run_digest(timeframe) *)

DigestInit ==
    /\ mode = "digest"
    /\ pc = "start"
    /\ \E run \in DigestRuns : clock = run.now /\ timeframe = run.timeframe
    /\ ticks = 0
    /\ all_tweets = << >>
    /\ served = << >>
    /\ cursors = << >>
    /\ pagination_token = 0
    /\ fetch_window = NoBoundary
    /\ boundary = NoBoundary
    /\ filtered_tweets = << >>
    /\ unique_tweets = << >>
    /\ email = NoEmail
    /\ sent = << >>
    /\ error = ""
    /\ exit_code = -1
    /\ tweet_elements = << >>
    /\ tweets = << >>
    /\ hours = 0
    /\ cutoff_time = NoneDT
    /\ recent_tweets = << >>
    /\ time_text = << >>
    /\ parsed = NoResult

\* a fetch window of exactly the length of the timeframe
OverFetchDays_Exact(tf) ==
    CASE tf = "daily" -> 1 [] tf = "weekly" -> 7 [] OTHER -> 30

\* days the fetch window reaches back: 2, 14, or 32 in the else branch
OverFetchDays(tf) ==
    CASE tf = "daily" -> 2 [] tf = "weekly" -> 14 [] OTHER -> 32

\* now = datetime.now(...); start_time = now - timedelta(days=..); end_time = now
Start ==
    /\ mode = "digest"
    /\ pc = "start"
    /\ fetch_window' = [start_time |-> MinusDays(clock, OverFetchDays(timeframe)),
                        end_time   |-> clock]
    /\ pc' = "fetch"
    /\ UNCHANGED <<mode, clock, ticks, timeframe, served, cursors, pagination_token,
                   all_tweets, boundary, filtered_tweets, unique_tweets, email,
                   sent, error, exit_code, tweet_elements, tweets, hours,
                   cutoff_time, recent_tweets,
                   time_text, parsed>>

\* time passes between two readings of the clock
Tick ==
    /\ mode \in {"digest", "scrape"}
    /\ pc \in {"filter", "render", "filter_recent"}
    /\ ticks < MaxTicks
    /\ clock' = MinusDelta(clock, 0, 0 - TickSeconds)
    /\ ticks' = ticks + 1
    /\ UNCHANGED <<mode, pc, timeframe, served, cursors, pagination_token,
                   fetch_window, all_tweets, boundary, filtered_tweets,
                   unique_tweets, email, sent, error, exit_code, tweet_elements,
                   tweets, hours, cutoff_time, recent_tweets,
                   time_text, parsed>>

\* a page loop in which a failed request aborts the run
AfterPage_Abort(resp) ==
    LET page == ProcessTweets(resp.data, resp.users, resp.media, fetch_window)
    IN IF resp.status = "error"
       THEN [all_tweets |-> all_tweets, pagination_token |-> pagination_token,
             pc |-> "failed", error |-> "RequestException", exit_code |-> 1]
       ELSE IF ~resp.has_data
       THEN [all_tweets |-> all_tweets, pagination_token |-> pagination_token,
             pc |-> "filter", error |-> "", exit_code |-> exit_code]
       ELSE IF page.raised # ""
       THEN [all_tweets |-> all_tweets \o page.value, pagination_token |-> pagination_token,
             pc |-> "failed", error |-> page.raised, exit_code |-> 1]
       ELSE [all_tweets |-> all_tweets \o page.value, pagination_token |-> resp.next_token,
             pc |-> IF resp.next_token = 0 THEN "filter" ELSE "fetch",
             error |-> "", exit_code |-> exit_code]

\* the state after one pass of "while True": the request, the page's tweets,
\* the next token; an exception other than RequestException leaves
\* fetch_liked_tweets and is caught by run_digest, which exits with status 1
AfterPage(resp) ==
    LET page == ProcessTweets(resp.data, resp.users, resp.media, fetch_window)
    IN IF resp.status = "error" \/ ~resp.has_data
       THEN [all_tweets |-> all_tweets, pagination_token |-> pagination_token,
             pc |-> "filter", error |-> "", exit_code |-> exit_code]
       ELSE IF page.raised # ""
       THEN [all_tweets |-> all_tweets \o page.value, pagination_token |-> pagination_token,
             pc |-> "failed", error |-> page.raised, exit_code |-> 1]
       ELSE [all_tweets |-> all_tweets \o page.value, pagination_token |-> resp.next_token,
             pc |-> IF resp.next_token = 0 THEN "filter" ELSE "fetch",
             error |-> "", exit_code |-> exit_code]

FetchPage ==
    /\ mode = "digest"
    /\ pc = "fetch"
    /\ Len(served) < MaxPages
    /\ \E resp \in Responses(Len(served) + 1, MaxRecords - RecordsServed(served)) :
         LET after == AfterPage(resp)
         IN /\ served' = Append(served, resp)
            /\ cursors' = Append(cursors, pagination_token)
            /\ all_tweets' = after.all_tweets
            /\ pagination_token' = after.pagination_token
            /\ pc' = after.pc
            /\ error' = after.error
            /\ exit_code' = after.exit_code
    /\ UNCHANGED <<mode, clock, ticks, timeframe, fetch_window, boundary,
                   filtered_tweets, unique_tweets, email, sent, tweet_elements,
                   tweets, hours, cutoff_time, recent_tweets,
                   time_text, parsed>>

\* filtered_tweets = self.filter_tweets_by_timeframe(all_tweets, timeframe)
RunFilter ==
    /\ mode = "digest"
    /\ pc = "filter"
    /\ LET r == filter_tweets_by_timeframe(all_tweets, timeframe, clock)
       IN /\ boundary' = BoundaryOf(timeframe, clock)
          /\ filtered_tweets' = r.value
          /\ error' = r.raised
          /\ pc' = IF r.raised = "" THEN "dedup" ELSE "failed"
          /\ exit_code' = IF r.raised = "" THEN exit_code ELSE 1
    /\ UNCHANGED <<mode, clock, ticks, timeframe, served, cursors, pagination_token,
                   fetch_window, all_tweets, unique_tweets, email, sent,
                   tweet_elements, tweets, hours, cutoff_time, recent_tweets,
                   time_text, parsed>>

\* the "Remove duplicates" loop
RunDedup ==
    /\ mode = "digest"
    /\ pc = "dedup"
    /\ unique_tweets' = Deduplicate(filtered_tweets)
    /\ pc' = "render"
    /\ UNCHANGED <<mode, clock, ticks, timeframe, served, cursors, pagination_token,
                   fetch_window, all_tweets, boundary, filtered_tweets, email,
                   sent, error, exit_code, tweet_elements, tweets, hours,
                   cutoff_time, recent_tweets,
                   time_text, parsed>>

\* subject, html_content = self.generate_html_email(unique_tweets, timeframe)
RunRender ==
    /\ mode = "digest"
    /\ pc = "render"
    /\ email' = generate_html_email(unique_tweets, timeframe, clock)
    /\ pc' = "send"
    /\ UNCHANGED <<mode, clock, ticks, timeframe, served, cursors, pagination_token,
                   fetch_window, all_tweets, boundary, filtered_tweets,
                   unique_tweets, sent, error, exit_code, tweet_elements, tweets,
                   hours, cutoff_time, recent_tweets,
                   time_text, parsed>>

\* self.send_email(subject, html_content): delivered, or the SMTP session
\* raises, send_email re-raises and run_digest exits with status 1
RunSend ==
    /\ mode = "digest"
    /\ pc = "send"
    /\ \E delivered \in BOOLEAN :
         /\ sent' = IF delivered THEN Append(sent, email) ELSE sent
         /\ pc' = IF delivered THEN "done" ELSE "failed"
         /\ error' = IF delivered THEN "" ELSE "SMTPException"
         /\ exit_code' = IF delivered THEN 0 ELSE 1
    /\ UNCHANGED <<mode, clock, ticks, timeframe, served, cursors, pagination_token,
                   fetch_window, all_tweets, boundary, filtered_tweets,
                   unique_tweets, email, tweet_elements, tweets, hours,
                   cutoff_time, recent_tweets,
                   time_text, parsed>>

Next ==
    \/ Start
    \/ Tick
    \/ FetchPage
    \/ RunFilter
    \/ RunDedup
    \/ RunRender
    \/ RunSend

Spec == DigestInit /\ [][Next]_vars

----------------------------------------------------------------------------
(* Claims about filter_tweets_by_timeframe, checked under FilterSpec *)

FilterCalled == mode = "filter" /\ pc # "filter"

IsCutoff(dt) ==
    dt.hour = 21 /\ dt.minute = 0 /\ dt.second = 0 /\ dt.microsecond = 0

SameDate(a, b) == a.year = b.year /\ a.month = b.month /\ a.day = b.day

\* a naive created_at read as local time of the configured timezone
Localized(dt) ==
    IF dt.kind = "naive"
    THEN Aware(dt.year, dt.month, dt.day, dt.hour, dt.minute, dt.second,
               dt.microsecond, TzOffsetMinutes)
    ELSE dt

InBoundary(t) ==
    /\ t.created_at.kind # "none"
    /\ KeyLE(UtcKey(boundary.start_time), UtcKey(Localized(t.created_at)))
    /\ KeyLE(UtcKey(Localized(t.created_at)), UtcKey(boundary.end_time))

\* C2: for posts with a non-null created_at and a timeframe of daily, weekly
\* or monthly, the filter returns exactly the posts with
\* start <= created_at <= end, a naive created_at being localized to the
\* configured timezone first, in input order.
C2_FilterIffInBoundary ==
    (/\ FilterCalled
     /\ timeframe \in Timeframes
     /\ \A i \in DOMAIN all_tweets : all_tweets[i].created_at.kind # "none")
    => /\ pc = "returned"
       /\ filtered_tweets = SelectSeq(all_tweets, InBoundary)

\* C3: the weekly boundary starts at 21:00 on a Sunday, ends at 21:00 on the
\* next Sunday, and is the most recently completed week: its end is not later
\* than the current moment.
C3_WeeklySundayToSunday ==
    (FilterCalled /\ timeframe = "weekly")
    => /\ weekday(boundary.start_time) = 6
       /\ weekday(boundary.end_time) = 6
       /\ IsCutoff(boundary.start_time)
       /\ IsCutoff(boundary.end_time)
       /\ ToOrdinal(boundary.end_time) = ToOrdinal(boundary.start_time) + 7
       /\ KeyLE(UtcKey(boundary.end_time), UtcKey(clock))

\* the day before date <<y, m, d>>, by the calendar
DayBefore(y, m, d) ==
    IF d > 1 THEN <<y, m, d - 1>>
    ELSE IF m = 1 THEN <<y - 1, 12, 31>>
    ELSE IF m - 1 \in {4, 6, 9, 11} THEN <<y, m - 1, 30>>
    ELSE IF m - 1 # 2 THEN <<y, m - 1, 31>>
    ELSE IF y % 4 = 0 /\ (y % 100 # 0 \/ y % 400 = 0) THEN <<y, 2, 29>>
    ELSE <<y, 2, 28>>

\* C4: the daily boundary is start = 21:00 local on the calendar day before
\* the current date and end = 21:00 local on the current date, whatever the
\* time of day; now = 2024-03-15 10:00 gives 2024-03-14 21:00 and
\* 2024-03-15 21:00.
C4_DailyBoundary ==
    (FilterCalled /\ timeframe = "daily")
    => /\ IsCutoff(boundary.start_time)
       /\ IsCutoff(boundary.end_time)
       /\ SameDate(boundary.end_time, clock)
       /\ <<boundary.start_time.year, boundary.start_time.month, boundary.start_time.day>>
            = DayBefore(clock.year, clock.month, clock.day)
       /\ boundary.start_time.kind = "aware" /\ boundary.start_time.off = clock.off
       /\ boundary.end_time.kind = "aware" /\ boundary.end_time.off = clock.off
       /\ (clock = Aware(2024, 3, 15, 10, 0, 0, 0, -300)
           => /\ boundary.start_time = Aware(2024, 3, 14, 21, 0, 0, 0, -300)
              /\ boundary.end_time = Aware(2024, 3, 15, 21, 0, 0, 0, -300))

C4_Witness ==
    /\ FilterCalled
    /\ timeframe = "daily"
    /\ clock = Aware(2024, 3, 15, 23, 59, 59, 999999, -300)
    /\ boundary.start_time = Aware(2024, 3, 14, 21, 0, 0, 0, -300)
    /\ boundary.end_time = Aware(2024, 3, 15, 21, 0, 0, 0, -300)

\* day count of month m of year y, by the calendar
LastDayOf(y, m) ==
    IF m \in {4, 6, 9, 11} THEN 30
    ELSE IF m # 2 THEN 31
    ELSE IF y % 4 = 0 /\ (y % 100 # 0 \/ y % 400 = 0) THEN 29
    ELSE 28

\* C5: the monthly boundary is start = 21:00 on day 1 of the current calendar
\* month and end = 21:00 on the last day of that month, the last day being
\* the month's day count (28, 29, 30 or 31) for the current year and month.
C5_MonthlyBoundary ==
    (FilterCalled /\ timeframe = "monthly")
    => /\ IsCutoff(boundary.start_time)
       /\ IsCutoff(boundary.end_time)
       /\ boundary.start_time.year = clock.year
       /\ boundary.start_time.month = clock.month
       /\ boundary.start_time.day = 1
       /\ boundary.end_time.year = clock.year
       /\ boundary.end_time.month = clock.month
       /\ boundary.end_time.day = LastDayOf(clock.year, clock.month)
       /\ boundary.start_time.off = clock.off
       /\ boundary.end_time.off = clock.off

C5_Witness ==
    /\ FilterCalled
    /\ timeframe = "monthly"
    /\ clock.year = 2024 /\ clock.month = 2 /\ clock.day = 3
    /\ boundary.start_time = Aware(2024, 2, 1, 21, 0, 0, 0, -300)
    /\ boundary.end_time = Aware(2024, 2, 29, 21, 0, 0, 0, -300)

\* C9: in the absolute-boundary mode a post whose created_at is null is
\* excluded from the result and the other posts are still filtered normally:
\* the call returns a list and does not fail.
C9_NullCreatedAtExcluded ==
    (/\ FilterCalled
     /\ timeframe \in Timeframes
     /\ \E i \in DOMAIN all_tweets : all_tweets[i].created_at.kind = "none"
     /\ \A i \in DOMAIN all_tweets : all_tweets[i].created_at.kind # "naive")
    => /\ pc = "returned"
       /\ filtered_tweets = SelectSeq(all_tweets, InBoundary)

----------------------------------------------------------------------------
(* Claims about run_digest, checked under Spec *)

\* the deduplication step has run
Deduplicated ==
    /\ mode = "digest"
    /\ \/ pc \in {"render", "send", "done"}
       \/ pc = "failed" /\ error = "SMTPException"

\* the digest has been rendered
Rendered ==
    /\ mode = "digest"
    /\ \/ pc \in {"send", "done"}
       \/ pc = "failed" /\ error = "SMTPException"

IdsOf(ts) == { ts[i].id : i \in DOMAIN ts }

\* index of the first post of filtered_tweets with this id
FirstIndex(id) ==
    CHOOSE i \in DOMAIN filtered_tweets :
        /\ filtered_tweets[i].id = id
        /\ \A j \in 1..(i - 1) : filtered_tweets[j].id # id

\* C1: deduplication yields a sequence in which every id of the input occurs
\* exactly once, the kept post of an id is its first occurrence in the input,
\* the kept posts are in the input's relative order, and the rendered digest
\* has exactly one block per id.
C1_DedupFirstOccurrence ==
    /\ Deduplicated =>
         /\ IdsOf(unique_tweets) = IdsOf(filtered_tweets)
         /\ \A i, j \in DOMAIN unique_tweets :
              i # j => unique_tweets[i].id # unique_tweets[j].id
         /\ \A i \in DOMAIN unique_tweets :
              unique_tweets[i] = filtered_tweets[FirstIndex(unique_tweets[i].id)]
         /\ \A i, j \in DOMAIN unique_tweets :
              i < j => FirstIndex(unique_tweets[i].id) < FirstIndex(unique_tweets[j].id)
    /\ Rendered =>
         \A id \in IdsOf(filtered_tweets) :
            Cardinality({ k \in DOMAIN email.html_content.blocks :
                            email.html_content.blocks[k].permalink[4] = id }) = 1

C1_Witness ==
    /\ Rendered
    /\ Len(filtered_tweets) = 3
    /\ Len(unique_tweets) = 2
    /\ filtered_tweets[1].id = filtered_tweets[3].id
    /\ filtered_tweets[1] # filtered_tweets[3]
    /\ Len(email.html_content.blocks) = 2

\* C14: for every list of deduplicated posts and every timeframe the renderer
\* returns a subject and a body: for the empty list the body is the no-posts
\* placeholder under the title of the timeframe, without a post block; for a
\* non-empty list the body has exactly one block per post, the permalink
\* anchors in the order of the list; the list itself is left as it was.
C14_OneBlockPerPostInOrder ==
    Rendered
    => /\ email.subject # << >>
       /\ timeframe = "daily"   => email.html_content.title = "Daily Liked Tweets Digest"
       /\ timeframe = "weekly"  => email.html_content.title = "Weekly Liked Tweets Summary"
       /\ timeframe = "monthly" => email.html_content.title = "Monthly Liked Tweets Recap"
       /\ unique_tweets = << >>
            => email.html_content.no_tweets /\ email.html_content.blocks = << >>
       /\ unique_tweets # << >>
            => /\ ~email.html_content.no_tweets
               /\ Len(email.html_content.blocks) = Len(unique_tweets)
               /\ email.html_content.found = Len(unique_tweets)
               /\ \A i \in DOMAIN unique_tweets :
                    email.html_content.blocks[i].permalink = unique_tweets[i].url
       /\ unique_tweets = Deduplicate(filtered_tweets)

C14_Witness ==
    /\ Rendered
    /\ timeframe = "monthly"
    /\ Len(unique_tweets) = 2
    /\ unique_tweets[1].id = 2
    /\ unique_tweets[2].id = 1
    /\ email.html_content.blocks[1].permalink = <<"https://twitter.com", "unknown", "status", 2>>
    /\ email.html_content.blocks[2].permalink = <<"https://twitter.com", "alice", "status", 1>>

\* C15: deduplication is idempotent: applying the deduplication step of
\* run_digest to its own output gives that output unchanged.
C15_DedupIdempotent ==
    Deduplicated => Deduplicate(unique_tweets) = unique_tweets

C15_Witness ==
    /\ mode = "digest"
    /\ pc = "render"
    /\ Len(filtered_tweets) = 3
    /\ Len(unique_tweets) = 1
    /\ filtered_tweets[2] # filtered_tweets[1]

\* exceptions raised while a record of a page is turned into a post
RecordErrors ==
    { "KeyError: 'created_at'", "ValueError: Invalid isoformat string", "TypeError",
      "KeyError: 'author_id'", "KeyError: 'id'", "KeyError: 'text'" }

\* C6: for a timeframe other than daily, weekly or monthly the filter fails
\* with an invalid-argument error instead of returning posts, and run_digest
\* ends in the failed (non-zero exit) state without ever sending an email.
C6_InvalidTimeframeFails ==
    (mode = "digest" /\ timeframe \notin Timeframes)
    => /\ sent = << >>
       /\ filtered_tweets = << >>
       /\ pc \in {"start", "fetch", "filter", "failed"}
       /\ pc = "failed" =>
            /\ exit_code = 1
            /\ error \in RecordErrors \cup {InvalidTimeframe}
            /\ error \notin RecordErrors => error = InvalidTimeframe

C6_Witness ==
    /\ mode = "digest"
    /\ timeframe = "hourly"
    /\ pc = "failed"
    /\ error = InvalidTimeframe
    /\ exit_code = 1
    /\ all_tweets # << >>
    /\ sent = << >>

RECURSIVE Flatten(_)
\* the records of a sequence of pages, in page order
Flatten(pages) ==
    IF pages = << >> THEN << >> ELSE Head(pages).data \o Flatten(Tail(pages))

\* a record from which a post can be made
WellFormed(r) ==
    /\ r.created_at # Absent /\ r.created_at[1].valid /\ r.created_at[1].suffix # ""
    /\ r.id # Absent /\ r.text # Absent /\ r.author_id # Absent

\* the instant of a well-formed record's created_at
CreatedKey(r) ==
    LET t == r.created_at[1]
    IN UtcKey(Aware(t.year, t.month, t.day, t.hour, t.minute, t.second, t.microsecond,
                    IF t.suffix = "-05:00" THEN -300 ELSE 0))

\* a well-formed record created inside the fetch window
InFetchWindow(r) ==
    /\ WellFormed(r)
    /\ KeyLE(UtcKey(fetch_window.start_time), CreatedKey(r))
    /\ KeyLE(CreatedKey(r), UtcKey(fetch_window.end_time))

\* C7: when fetching page k fails, fetch_liked_tweets stops paginating, makes
\* no further request and returns exactly the posts accumulated from pages
\* 1..k-1; the run is not aborted: run_digest goes on to filter, deduplicate,
\* render and send the digest from that partial result.
C7_FailedPageGivesPartialResult ==
    \A k \in DOMAIN served :
       served[k].status = "error"
       => /\ k = Len(served)
          /\ Len(cursors) = k
          /\ pc \in {"filter", "dedup", "render", "send", "done", "failed"}
          /\ LET read == SelectSeq(Flatten(SubSeq(served, 1, k - 1)), InFetchWindow)
             IN /\ Len(all_tweets) = Len(read)
                /\ \A i \in DOMAIN all_tweets :
                     /\ all_tweets[i].id = read[i].id[1]
                     /\ all_tweets[i].text = read[i].text[1]
          /\ pc = "failed" => error \in {InvalidTimeframe, "SMTPException"}
          /\ timeframe \in Timeframes /\ pc \in {"dedup", "render", "send", "done"}
               => filtered_tweets = SelectSeq(all_tweets, InBoundary)
          /\ pc \in {"send", "done"}
               => /\ email.html_content.found = Len(Deduplicate(filtered_tweets))
                  /\ email.html_content.no_tweets = (filtered_tweets = << >>)
          /\ pc = "done" => sent = <<email>>

C7_Witness ==
    /\ mode = "digest"
    /\ Len(served) = 2
    /\ served[1].status = "ok"
    /\ served[2].status = "error"
    /\ Len(cursors) = 2
    /\ Len(all_tweets) = 2
    /\ pc = "done"
    /\ Len(sent) = 1
    /\ Len(sent[1].html_content.blocks) = 1

\* C8: a single malformed raw record is skipped and every well-formed record
\* before and after it in the batch is still returned; the malformed record
\* never aborts the batch or the run (here: the API extractor inside
\* run_digest).
C8_MalformedRecordSkipped ==
    mode = "digest"
    => /\ error \notin RecordErrors
       /\ pc \notin {"start", "fetch"}
            => Len(all_tweets) = Len(SelectSeq(Flatten(served), InFetchWindow))

\* the strict filter has just returned
JustFiltered == mode = "digest" /\ pc = "dedup"

\* the renderer has just returned
JustRendered == mode = "digest" /\ pc = "send"

\* the instant key k lies inside the strict boundary and not after the now
\* of run_digest
InBoundaryUpToNow(k) ==
    /\ KeyLE(UtcKey(boundary.start_time), k)
    /\ KeyLE(k, UtcKey(boundary.end_time))
    /\ KeyLE(k, UtcKey(fetch_window.end_time))

\* C17: for every timeframe and every moment the start of the over-fetch
\* window of run_digest (now minus 2, 14 or 32 days) is not later than the
\* start of the strict boundary the filter computes for that moment; so no
\* post created at or before now and inside the strict boundary is dropped by
\* the fetch filter, and the posts rendered are exactly the fetched posts
\* with strict start <= created_at <= min(strict end, now).
C17_OverFetchCoversBoundary ==
    /\ (mode = "digest" /\ pc = "start")
       => \A now \in FilterNows, tf \in Timeframes :
             KeyLE(UtcKey(MinusDays(now, OverFetchDays(tf))),
                   UtcKey(BoundaryOf(tf, now).start_time))
    /\ (mode = "digest" /\ pc = "fetch" /\ timeframe \in Timeframes)
       => KeyLE(UtcKey(fetch_window.start_time),
                UtcKey(BoundaryOf(timeframe, fetch_window.end_time).start_time))
    /\ JustFiltered
       => LET records == Flatten(served)
              wanted  == { i \in DOMAIN records :
                             WellFormed(records[i]) /\ InBoundaryUpToNow(CreatedKey(records[i])) }
          IN /\ KeyLE(UtcKey(fetch_window.start_time), UtcKey(boundary.start_time))
             /\ \A i \in wanted :
                  /\ KeyLE(UtcKey(fetch_window.start_time), CreatedKey(records[i]))
                  /\ \E j \in DOMAIN all_tweets : all_tweets[j].id = records[i].id[1]
    /\ JustRendered
       => LET records == Flatten(served)
              wanted  == { records[i].id[1] : i \in
                             { i \in DOMAIN records :
                                 /\ WellFormed(records[i])
                                 /\ InBoundaryUpToNow(CreatedKey(records[i])) } }
              blocks  == email.html_content.blocks
          IN /\ { blocks[k].permalink[4] : k \in DOMAIN blocks } = wanted
             /\ Len(blocks) = Cardinality(wanted)

C17_Witness ==
    /\ Rendered
    /\ timeframe = "weekly"
    /\ Len(served) = 1
    /\ served[1].data = <<Raw1, Raw2>>
    /\ Len(all_tweets) = 2
    /\ boundary.start_time = Aware(2024, 3, 4, 21, 0, 0, 0, -300)
    /\ fetch_window.start_time = Aware(2024, 3, 1, 23, 59, 59, 0, -300)
    /\ Len(email.html_content.blocks) = 1
    /\ email.html_content.blocks[1].permalink[4] = 2

\* a response after which the loop must stop: a failed request, no data, or
\* no meta.next_token
LastPage(resp) == resp.status = "error" \/ ~resp.has_data \/ resp.next_token = 0

\* C16: pagination is strictly sequential with one attempt per page: the
\* first request carries no cursor, each later request carries the next_token
\* of the response before it, and no request follows the first response that
\* fails, has no data or has no next_token; once such a response has come,
\* the fetch has ended and returned the in-window posts of the pages read, in
\* page order.
C16_SequentialPagination ==
    mode = "digest"
    => /\ Len(cursors) = Len(served)
       /\ \A k \in DOMAIN cursors :
            cursors[k] = IF k = 1 THEN 0 ELSE served[k - 1].next_token
       /\ \A k \in DOMAIN served :
            LastPage(served[k])
            => /\ k = Len(served)
               /\ pc \notin {"start", "fetch"}
               /\ error \notin RecordErrors
               /\ Len(all_tweets) = Len(SelectSeq(Flatten(served), InFetchWindow))
               /\ \A i \in DOMAIN all_tweets :
                    /\ all_tweets[i].id = SelectSeq(Flatten(served), InFetchWindow)[i].id[1]
                    /\ all_tweets[i].text = SelectSeq(Flatten(served), InFetchWindow)[i].text[1]

----------------------------------------------------------------------------
(* TwitterScraper.parse_timestamp *)

\* str.lower on one character
LowerChar(c) ==
    CASE c = "M" -> "m" [] c = "H" -> "h" [] c = "D" -> "d" [] OTHER -> c

\* str.lower
Lower(cs) == [i \in DOMAIN cs |-> LowerChar(cs[i])]

RECURSIVE Strip(_)
\* str.strip
Strip(cs) ==
    IF cs = << >> THEN << >>
    ELSE IF Head(cs) = " " THEN Strip(Tail(cs))
    ELSE IF cs[Len(cs)] = " " THEN Strip(SubSeq(cs, 1, Len(cs) - 1))
    ELSE cs

\* str.replace(c, '')
Remove(cs, c) == SelectSeq(cs, LAMBDA x : x # c)

DecimalDigits == {"0", "1", "2", "3", "4", "5", "6", "7", "8", "9"}

\* characters for which str.isdigit is true: the decimal digits and digit
\* characters such as superscript two, which int() rejects
DigitChars == DecimalDigits \cup {"²"}

\* str.isdigit
isdigit(cs) == cs # << >> /\ \A i \in DOMAIN cs : cs[i] \in DigitChars

DigitValue(c) ==
    CASE c = "0" -> 0 [] c = "1" -> 1 [] c = "2" -> 2 [] c = "3" -> 3 [] c = "4" -> 4
      [] c = "5" -> 5 [] c = "6" -> 6 [] c = "7" -> 7 [] c = "8" -> 8 [] c = "9" -> 9

RECURSIVE int(_)
\* int() of a text of decimal digits
int(cs) ==
    IF cs = << >> THEN 0
    ELSE int(SubSeq(cs, 1, Len(cs) - 1)) * 10 + DigitValue(cs[Len(cs)])

\* one branch: 'u' in time_text and time_text.replace('u', '').isdigit()
UnitMatches(t, u) == (\E i \in DOMAIN t : t[i] = u) /\ isdigit(Remove(t, u))

\* int(time_text.replace('u', '')) raises ValueError on a non-decimal digit
IntRaises(t, u) == \E i \in DOMAIN Remove(t, u) : Remove(t, u)[i] \notin DecimalDigits

\* a parser without time_text.lower(): an upper-case unit letter is not a unit
parse_timestamp_CaseSensitive(text, now) ==
    IF text = << >> THEN Return(NoneDT)
    ELSE LET t == Strip(text)
         IN IF UnitMatches(t, "m") /\ ~IntRaises(t, "m")
            THEN Return(MinusMinutes(now, int(Remove(t, "m"))))
            ELSE IF UnitMatches(t, "h") /\ ~IntRaises(t, "h")
            THEN Return(MinusHours(now, int(Remove(t, "h"))))
            ELSE IF UnitMatches(t, "d") /\ ~IntRaises(t, "d")
            THEN Return(MinusDays(now, int(Remove(t, "d"))))
            ELSE Return(MinusDays(now, 2))

\* the method: the datetime it returns (NoneDT for None) or the exception
parse_timestamp(text, now) ==
    IF text = << >> THEN Return(NoneDT)
    ELSE LET t == Strip(Lower(text))
         IN IF UnitMatches(t, "m")
            THEN IF IntRaises(t, "m") THEN Raise("ValueError: invalid literal for int()")
                 ELSE Return(MinusMinutes(now, int(Remove(t, "m"))))
            ELSE IF UnitMatches(t, "h")
            THEN IF IntRaises(t, "h") THEN Raise("ValueError: invalid literal for int()")
                 ELSE Return(MinusHours(now, int(Remove(t, "h"))))
            ELSE IF UnitMatches(t, "d")
            THEN IF IntRaises(t, "d") THEN Raise("ValueError: invalid literal for int()")
                 ELSE Return(MinusDays(now, int(Remove(t, "d"))))
            ELSE Return(MinusDays(now, 2))

----------------------------------------------------------------------------
(* TwitterScraper.extract_tweet_data *)

\* one article element, as what each of its queries gives
Element(detached, text, social, author, link, time, imgs, videos) ==
    [detached |-> detached, text |-> text, social |-> social, author |-> author,
     link |-> link, time |-> time, imgs |-> imgs, videos |-> videos]

\* 'Promoted' in text
ContainsPromoted(text) == \E i \in DOMAIN text : text[i] = "Promoted"

\* 'retweeted' in retweet_text.lower()
ContainsRetweeted(text) == \E i \in DOMAIN text : text[i] \in {"retweeted", "Retweeted"}

\* the url of a link element: href is None, relative or absolute
UrlOf(link) ==
    IF link = Absent THEN Return(<< >>)
    ELSE IF link[1].is_none THEN Raise("AttributeError")
    ELSE IF link[1].relative THEN Return(<<"https://twitter.com">> \o link[1].path)
    ELSE Return(link[1].path)

\* the timestamp of a time element
TimestampOf(time, now) ==
    IF time = Absent THEN Return(NoneDT)
    ELSE IF time[1].datetime # Absent
         THEN IF time[1].datetime[1].valid
              THEN Return(fromisoformat(time[1].datetime[1]))
              ELSE Raise("ValueError: Invalid isoformat string")
         ELSE parse_timestamp(time[1].inner_text, now)

RECURSIVE ImageMedia(_)
\* for img in img_elements: if src and 'media' in src
ImageMedia(imgs) ==
    IF imgs = << >> THEN << >>
    ELSE (IF Head(imgs) # Absent /\ Head(imgs)[1].has_media
          THEN <<[type |-> "image", ref |-> Head(imgs)[1].src]>> ELSE << >>)
         \o ImageMedia(Tail(imgs))

RECURSIVE VideoMedia(_)
\* for video in video_elements: if poster
VideoMedia(videos) ==
    IF videos = << >> THEN << >>
    ELSE (IF Head(videos) # Absent
          THEN <<[type |-> "video", ref |-> Head(videos)[1] ]>> ELSE << >>)
         \o VideoMedia(Tail(videos))

\* the body of "for element in tweet_elements": the tweet_data appended
\* (none when the element is skipped by continue) or the exception raised
ExtractElement(el, now) ==
    IF el.detached THEN Raise("Error: element detached")
    ELSE IF el.text = Absent THEN Return(<< >>)
    ELSE IF el.text[1] = << >> \/ ContainsPromoted(el.text[1]) THEN Return(<< >>)
    ELSE IF el.social # Absent /\ ContainsRetweeted(el.social[1]) THEN Return(<< >>)
    ELSE IF UrlOf(el.link).raised # "" THEN Raise(UrlOf(el.link).raised)
    ELSE IF TimestampOf(el.time, now).raised # "" THEN Raise(TimestampOf(el.time, now).raised)
    ELSE Return(<<[text          |-> el.text[1],
                   author_handle |-> IF el.author = Absent THEN <<"@unknown">>
                                     ELSE Strip(el.author[1]),
                   url           |-> UrlOf(el.link).value,
                   timestamp     |-> TimestampOf(el.time, now).value,
                   media         |-> ImageMedia(el.imgs) \o VideoMedia(el.videos)]>>)

RECURSIVE extract_tweet_data(_, _)
\* the method: try / except Exception: continue around every element
extract_tweet_data(els, now) ==
    IF els = << >> THEN << >>
    ELSE (IF ExtractElement(Head(els), now).raised # "" THEN << >>
          ELSE ExtractElement(Head(els), now).value)
         \o extract_tweet_data(Tail(els), now)

----------------------------------------------------------------------------
(* TwitterScraper.filter_recent_tweets *)

\* tweet_time >= cutoff_time on aware datetimes
DtGE(a, b) == KeyLE(UtcKey(b), UtcKey(a))

\* a filter that compares a naive timestamp as if it were UTC
Keeps_NaiveAsUtc(tweet, cutoff) ==
    IF tweet.timestamp.kind # "none"
    THEN DtGE([tweet.timestamp EXCEPT !.kind = "aware", !.off = 0], cutoff)
    ELSE TRUE

\* the body of "for tweet in tweets": whether the tweet is appended
Keeps(tweet, cutoff) ==
    IF tweet.timestamp.kind # "none"
    THEN LET tweet_time == IF tweet.timestamp.kind = "naive"
                           THEN localize(tweet.timestamp)
                           ELSE tweet.timestamp
         IN DtGE(tweet_time, cutoff)
    ELSE TRUE

RECURSIVE RecentLoop(_, _)
RecentLoop(ts, cutoff) ==
    IF ts = << >> THEN << >>
    ELSE (IF Keeps(Head(ts), cutoff) THEN <<Head(ts)>> ELSE << >>)
         \o RecentLoop(Tail(ts), cutoff)

\* the method
filter_recent_tweets(ts, h, now) == RecentLoop(ts, MinusHours(now, h))

----------------------------------------------------------------------------
(* Inputs of the scraper runs *)

ScrapeNows == { Aware(2024, 3, 15, 10, 0, 0, 0, TzOffsetMinutes),
                Aware(2024, 3, 15, 0, 30, 0, 0, TzOffsetMinutes) }

HoursFilters == {1, 24, 48}

TimeAttr(iso) == Some([datetime |-> Some(iso), inner_text |-> << >>])

TimeText(cs) == Some([datetime |-> Absent, inner_text |-> cs])

Link1 == Some([is_none |-> FALSE, relative |-> TRUE, path |-> <<"alice", "status", 1>>])

PlainElement(word, time) ==
    Element(FALSE, Some(<<word>>), Absent, Some(<<" ", "@alice">>), Link1, time,
            << >>, << >>)

ScrapeElements ==
    { \* 2024-03-14 10:00 local, 24 hours before 2024-03-15 10:00 local
      PlainElement("a", TimeAttr(IsoText(TRUE, 2024, 3, 14, 15, 0, 0, 0, "Z"))),
      PlainElement("b", TimeAttr(IsoText(TRUE, 2024, 3, 14, 14, 59, 59, 999999, "Z"))),
      \* naive datetime attributes
      PlainElement("c", TimeAttr(IsoText(TRUE, 2024, 3, 14, 10, 0, 0, 0, ""))),
      PlainElement("d", TimeAttr(IsoText(TRUE, 2024, 3, 15, 9, 0, 0, 0, ""))),
      \* no time element
      PlainElement("e", Absent),
      \* relative time text
      PlainElement("f", TimeText(<<" ", "3", "H">>)),
      PlainElement("g", TimeText(<<"x", "y", "z">>)),
      \* a datetime attribute that does not parse
      PlainElement("h", TimeAttr(IsoText(FALSE, 0, 0, 0, 0, 0, 0, 0, ""))),
      \* no text element
      Element(FALSE, Absent, Absent, Absent, Absent, Absent, << >>, << >>) }

----------------------------------------------------------------------------
(* TwitterScraper.scrape_liked_tweets: extraction, then the recency filter *)

ScrapeInit ==
    /\ mode = "scrape"
    /\ pc = "extract"
    /\ clock \in ScrapeNows
    /\ ticks = 0
    /\ timeframe = ""
    /\ all_tweets = << >>
    /\ served = << >>
    /\ cursors = << >>
    /\ pagination_token = 0
    /\ fetch_window = NoBoundary
    /\ boundary = NoBoundary
    /\ filtered_tweets = << >>
    /\ unique_tweets = << >>
    /\ email = NoEmail
    /\ sent = << >>
    /\ error = ""
    /\ exit_code = -1
    /\ tweet_elements \in SeqsUpTo(ScrapeElements, MaxElements)
    /\ tweets = << >>
    /\ hours \in HoursFilters
    /\ cutoff_time = NoneDT
    /\ recent_tweets = << >>
    /\ time_text = << >>
    /\ parsed = NoResult

\* all_tweets = await self.extract_tweet_data(page)
Extract ==
    /\ mode = "scrape"
    /\ pc = "extract"
    /\ tweets' = extract_tweet_data(tweet_elements, clock)
    /\ pc' = "filter_recent"
    /\ UNCHANGED <<mode, clock, ticks, timeframe, served, cursors, pagination_token,
                   fetch_window, all_tweets, boundary, filtered_tweets,
                   unique_tweets, email, sent, error, exit_code, tweet_elements,
                   hours, cutoff_time, recent_tweets,
                   time_text, parsed>>

\* recent_tweets = self.filter_recent_tweets(all_tweets, hours_filter)
FilterRecent ==
    /\ mode = "scrape"
    /\ pc = "filter_recent"
    /\ cutoff_time' = MinusHours(clock, hours)
    /\ recent_tweets' = filter_recent_tweets(tweets, hours, clock)
    /\ pc' = "returned"
    /\ UNCHANGED <<mode, clock, ticks, timeframe, served, cursors, pagination_token,
                   fetch_window, all_tweets, boundary, filtered_tweets,
                   unique_tweets, email, sent, error, exit_code, tweet_elements,
                   tweets, hours,
                   time_text, parsed>>

ScrapeNext ==
    \/ Extract
    \/ Tick
    \/ FilterRecent

ScrapeSpec == ScrapeInit /\ [][ScrapeNext]_vars

----------------------------------------------------------------------------
(* Claims about filter_recent_tweets, checked under ScrapeSpec *)

RecentFiltered == mode = "scrape" /\ pc = "returned"

\* seconds from instant key a to instant key b
SecondsBetween(a, b) == (b[1] - a[1]) * 86400 + (b[2] - a[2])

\* the timestamp is null, or its instant is at or after now minus N hours
IsRecent(t) ==
    \/ t.timestamp.kind = "none"
    \/ LET k == UtcKey(Localized(t.timestamp))
           n == UtcKey(clock)
       IN \/ SecondsBetween(k, n) < hours * 3600
          \/ SecondsBetween(k, n) = hours * 3600 /\ k[3] >= n[3]

\* C10: in the relative-hours mode the result is, in input order, exactly the
\* posts whose timestamp is null or is at or after now minus N hours, a naive
\* timestamp being localized to the configured timezone first; a post with a
\* null timestamp is included for every N.
C10_RecentOrNull ==
    RecentFiltered
    => /\ recent_tweets = SelectSeq(tweets, IsRecent)
       /\ \A i \in DOMAIN tweets :
            tweets[i].timestamp.kind = "none"
            => \E j \in DOMAIN recent_tweets : recent_tweets[j] = tweets[i]
       /\ SecondsBetween(UtcKey(cutoff_time), UtcKey(clock)) = hours * 3600
       /\ cutoff_time.microsecond = clock.microsecond

C10_Witness ==
    /\ RecentFiltered
    /\ hours = 24
    /\ clock = Aware(2024, 3, 15, 10, 0, 0, 0, -300)
    /\ Len(tweets) = 2
    /\ tweets[1].timestamp = Naive(2024, 3, 14, 10, 0, 0, 0)
    /\ tweets[2].timestamp.kind = "none"
    /\ recent_tweets = tweets

----------------------------------------------------------------------------
(* Stand-alone call of fetch_liked_tweets(start_time, end_time) *)

\* a record whose text is the empty string
RawEmpty == RawTweet(Some(4), Some(<< >>),
                     Some(IsoText(TRUE, 2024, 3, 15, 18, 0, 0, 0, "Z")), Some(7), Absent)

\* a record whose text carries the promotional marker
RawPromoted == RawTweet(Some(5), Some(<<"Promoted", " ", "offer">>),
                        Some(IsoText(TRUE, 2024, 3, 15, 19, 0, 0, 0, "Z")), Some(8), Absent)

\* a record without text
RawNoText == RawTweet(Some(6), Absent,
                      Some(IsoText(TRUE, 2024, 3, 15, 20, 0, 0, 0, "Z")), Some(7), Absent)

FetchRaws == { Raw1, RawEmpty, RawPromoted, RawNoText }

\* the responses the endpoint can give as page k, with at most n records
FetchResponses(k, n) ==
    { Response("error", FALSE, << >>, << >>, << >>, 0),
      Response("ok", FALSE, << >>, << >>, << >>, 0) }
    \cup { Response("ok", TRUE, d, IncludedUsers, IncludedMedia, t) :
             d \in SeqsUpTo(FetchRaws, n), t \in {0, k} }

FetchInit ==
    /\ mode = "fetch"
    /\ pc = "fetch"
    /\ clock \in DigestNows
    /\ ticks = 0
    /\ timeframe = ""
    /\ all_tweets = << >>
    /\ served = << >>
    /\ cursors = << >>
    /\ pagination_token = 0
    /\ fetch_window = [start_time |-> MinusDays(clock, 2), end_time |-> clock]
    /\ boundary = NoBoundary
    /\ filtered_tweets = << >>
    /\ unique_tweets = << >>
    /\ email = NoEmail
    /\ sent = << >>
    /\ error = ""
    /\ exit_code = -1
    /\ tweet_elements = << >>
    /\ tweets = << >>
    /\ hours = 0
    /\ cutoff_time = NoneDT
    /\ recent_tweets = << >>
    /\ time_text = << >>
    /\ parsed = NoResult

\* one pass of "while True" when the method is called on its own: it returns
\* all_tweets, or the exception of a record leaves it
CallFetchPage ==
    /\ mode = "fetch"
    /\ pc = "fetch"
    /\ Len(served) < MaxPages
    /\ \E resp \in FetchResponses(Len(served) + 1, MaxRecords - RecordsServed(served)) :
         LET after == AfterPage(resp)
         IN /\ served' = Append(served, resp)
            /\ cursors' = Append(cursors, pagination_token)
            /\ all_tweets' = after.all_tweets
            /\ pagination_token' = after.pagination_token
            /\ pc' = CASE after.pc = "fetch"  -> "fetch"
                       [] after.pc = "failed" -> "raised"
                       [] OTHER               -> "returned"
            /\ error' = after.error
    /\ UNCHANGED <<mode, clock, ticks, timeframe, fetch_window, boundary,
                   filtered_tweets, unique_tweets, email, sent, exit_code,
                   tweet_elements, tweets, hours, cutoff_time, recent_tweets,
                   time_text, parsed>>

FetchNext == CallFetchPage

FetchSpec == FetchInit /\ [][FetchNext]_vars

----------------------------------------------------------------------------
(* Claims about the two extractors *)

\* the text is missing, or carries the promotional marker
Unwanted(text) == text = << >> \/ ContainsPromoted(text)

\* C11: every raw record lacking body text is skipped: in both extractors the
\* posts produced are at most as many as the raw records, no produced post has
\* an empty or absent text, and no produced post carries the promotional
\* marker (a record with a repost-context marker is not produced either).
C11_NoTextNeverProduced ==
    /\ mode = "fetch"
       => /\ Len(all_tweets) <= RecordsServed(served)
          /\ \A i \in DOMAIN all_tweets : ~Unwanted(all_tweets[i].text)
    /\ (mode = "scrape" /\ pc # "extract")
       => /\ Len(tweets) <= Len(tweet_elements)
          /\ \A i \in DOMAIN tweets : ~Unwanted(tweets[i].text)

----------------------------------------------------------------------------
(* Stand-alone call of parse_timestamp(time_text) *)

\* characters of the texts: decimal digits, a digit that is not decimal, the
\* unit letters in both cases, a blank and another letter
ParseChars == {"0", "1", "5", "²", "m", "M", "h", "H", "d", "D", " ", "x"}

\* Friday 10:00, and half a minute after midnight of the day after a leap day
ParseNows == { Aware(2024, 3, 15, 10, 0, 0, 0, TzOffsetMinutes),
               Aware(2024, 3, 1, 0, 0, 30, 250000, TzOffsetMinutes) }

ParseInit ==
    /\ mode = "parse"
    /\ pc = "parse"
    /\ clock \in ParseNows
    /\ ticks = 0
    /\ timeframe = ""
    /\ all_tweets = << >>
    /\ served = << >>
    /\ cursors = << >>
    /\ pagination_token = 0
    /\ fetch_window = NoBoundary
    /\ boundary = NoBoundary
    /\ filtered_tweets = << >>
    /\ unique_tweets = << >>
    /\ email = NoEmail
    /\ sent = << >>
    /\ error = ""
    /\ exit_code = -1
    /\ tweet_elements = << >>
    /\ tweets = << >>
    /\ hours = 0
    /\ cutoff_time = NoneDT
    /\ recent_tweets = << >>
    /\ time_text \in SeqsUpTo(ParseChars, MaxTextLen)
    /\ parsed = NoResult

CallParse ==
    /\ mode = "parse"
    /\ pc = "parse"
    /\ parsed' = parse_timestamp(time_text, clock)
    /\ error' = parsed'.raised
    /\ pc' = IF parsed'.raised = "" THEN "returned" ELSE "raised"
    /\ UNCHANGED <<mode, clock, ticks, timeframe, served, cursors, pagination_token,
                   fetch_window, all_tweets, boundary, filtered_tweets,
                   unique_tweets, email, sent, exit_code, tweet_elements, tweets,
                   hours, cutoff_time, recent_tweets, time_text>>

ParseNext == CallParse

ParseSpec == ParseInit /\ [][ParseNext]_vars

----------------------------------------------------------------------------
(* Claims about parse_timestamp, checked under ParseSpec *)

ParseCalled == mode = "parse" /\ pc # "parse"

\* the text without the blanks around it
Core == Strip(time_text)

\* one or more decimal digits followed by exactly the unit letter u, in
\* either case, with blanks around them ignored
DigitsThenUnit(u) ==
    /\ Len(Core) >= 2
    /\ LowerChar(Core[Len(Core)]) = u
    /\ \A i \in 1..(Len(Core) - 1) : Core[i] \in DecimalDigits

\* the number the digits denote
Digits == int(SubSeq(Core, 1, Len(Core) - 1))

\* dt is the aware datetime s seconds before the clock
IsNowMinus(dt, s) ==
    /\ dt.kind = "aware"
    /\ dt.off = clock.off
    /\ dt.microsecond = clock.microsecond
    /\ SecondsBetween(UtcKey(dt), UtcKey(clock)) = s

\* C12: for a text of one or more decimal digits n followed by exactly one
\* unit letter, in either case and with blanks around it ignored,
\* parse_timestamp returns now minus n minutes for m, now minus n hours for
\* h and now minus n days for d.
C12_RelativeTimeParsed ==
    ParseCalled
    => /\ DigitsThenUnit("m") => parsed.raised = "" /\ IsNowMinus(parsed.value, Digits * 60)
       /\ DigitsThenUnit("h") => parsed.raised = "" /\ IsNowMinus(parsed.value, Digits * 3600)
       /\ DigitsThenUnit("d") => parsed.raised = "" /\ IsNowMinus(parsed.value, Digits * 86400)

C12_Witness ==
    /\ ParseCalled
    /\ clock = Aware(2024, 3, 1, 0, 0, 30, 250000, -300)
    /\ time_text = <<" ", "1", "H">>
    /\ parsed = Return(Aware(2024, 2, 29, 23, 0, 30, 250000, -300))

\* C13: for every text that is not digits followed by a single trailing unit
\* letter m, h or d (the empty text, a unit letter that is not last, a
\* repeated unit letter, a text without digits), parse_timestamp returns now
\* minus 2 days.
C13_FallbackTwoDays ==
    (ParseCalled /\ ~DigitsThenUnit("m") /\ ~DigitsThenUnit("h") /\ ~DigitsThenUnit("d"))
    => parsed.raised = "" /\ IsNowMinus(parsed.value, 2 * 86400)

====
